---- MODULE Spec2Model ----
(***************************************************************************)
(* Loan reconciliation: the amount normalizer (parseCurrency) and the      *)
(* aggregator (reconcileLoans) of src/src/utils/reconciliation.ts.         *)
(*                                                                         *)
(* JavaScript values.  A Number is an IEEE-754 binary floating-point      *)
(* value: NaN, +Infinity, -Infinity, or a finite value with a bounded      *)
(* significand.  The model keeps the format and scales its widths down:    *)
(* a finite value is an integer count of quanta (one quantum is            *)
(* 2^-FracBits), its significand has Precision bits, and there are two     *)
(* binades (quantum spacing 1 below 2^Precision, spacing 2 up to           *)
(* MaxFinite).  Every operation rounds to nearest, ties to even, and       *)
(* overflows to Infinity, as binary64 does with 53 bits.  Negative zero is *)
(* not distinguished from zero (the code only tests it with ===, > and ||, *)
(* which do not distinguish them either).                                   *)
(* A String is a sequence of one-character strings.                        *)
(***************************************************************************)
EXTENDS Integers, Sequences, FiniteSets, TLC

\* ---------------------------------------------------------------- bounds
Precision == 16      \* significand bits of the scaled-down Number format
FracBits == 1        \* a quantum is 2^-FracBits
MaxRows == 4         \* rows of lendings and settlements together, per call
MaxCalls == 2        \* calls of reconcileLoans in one behaviour
MaxLen == 3          \* characters of an amount text
MaxDataRows == 2     \* data rows of an uploaded file

\* ------------------------------------------------------------ JS numbers
Pow2(n) == 2 ^ n

QuantaPerOne == Pow2(FracBits)

\* Largest finite value, in quanta: significand all ones in the top binade.
MaxFinite == Pow2(Precision + 1) - 2

Num(v) == [type |-> "number", kind |-> "finite", val |-> v]

NaN == [type |-> "number", kind |-> "nan", val |-> 0]

Infinity == [type |-> "number", kind |-> "inf", val |-> 1]

NegInfinity == [type |-> "number", kind |-> "inf", val |-> -1]

Zero == Num(0)

Str(s) == [type |-> "string", text |-> s]

Undefined == [type |-> "undefined"]

typeof(x) == x.type

Abs(n) == IF n < 0 THEN -n ELSE n

\* n / d rounded to the nearest integer, ties to the even one (n >= 0, d > 0).
RoundHalfEven(n, d) ==
  LET fl == n \div d
      rem == n % d
  IN  IF 2 * rem < d THEN fl
      ELSE IF 2 * rem > d THEN fl + 1
      ELSE IF fl % 2 = 0 THEN fl ELSE fl + 1

\* The spacing of representable values around the magnitude n / d.
RECURSIVE Spacing(_, _, _)
Spacing(n, d, s) ==
  IF n \div d < s * Pow2(Precision) \/ s * Pow2(Precision) > 2 * MaxFinite THEN s
  ELSE Spacing(n, d, 2 * s)

\* The Number nearest to the rational n / d quanta (d > 0).
Round(n, d) ==
  LET a == Abs(n)
      s == Spacing(a, d, 1)
      m == RoundHalfEven(a, d * s) * s
  IN  IF m > MaxFinite THEN (IF n < 0 THEN NegInfinity ELSE Infinity)
      ELSE Num(IF n < 0 THEN -m ELSE m)

isNaN(x) == x.kind = "nan"

\* a + b
NumAdd(a, b) ==
  IF isNaN(a) \/ isNaN(b) THEN NaN
  ELSE IF a.kind = "inf" /\ b.kind = "inf" THEN (IF a.val = b.val THEN a ELSE NaN)
  ELSE IF a.kind = "inf" THEN a
  ELSE IF b.kind = "inf" THEN b
  ELSE Round(a.val + b.val, 1)

NumNeg(a) == IF isNaN(a) THEN NaN ELSE [a EXCEPT !.val = -a.val]

\* a - b
NumSub(a, b) == NumAdd(a, NumNeg(b))

\* a === 0
IsZero(a) == a.kind = "finite" /\ a.val = 0

\* a > 0
IsPositive(a) == a.kind # "nan" /\ a.val > 0

\* x || 0 on a Number or undefined: undefined, 0 and NaN are falsy.
OrZero(x) ==
  IF typeof(x) = "undefined" THEN Zero
  ELSE IF isNaN(x) \/ IsZero(x) THEN Zero
  ELSE x

\* ------------------------------------------------------------ JS strings
Digits == {"0", "1", "2", "3", "4", "5", "6", "7", "8", "9"}

DigitChars == <<"0", "1", "2", "3", "4", "5", "6", "7", "8", "9">>

DigitVal(c) == (CHOOSE i \in 1..10 : DigitChars[i] = c) - 1

WhiteSpace == {" ", "\t", "\n", "\r"}

\* The longest prefix of s whose characters are all in set.
RECURSIVE TakeWhile(_, _)
TakeWhile(s, set) ==
  IF s = <<>> \/ Head(s) \notin set THEN <<>>
  ELSE <<Head(s)>> \o TakeWhile(Tail(s), set)

Drop(s, n) == SubSeq(s, n + 1, Len(s))

\* The value of a digit string read in base ten (0 for the empty string).
RECURSIVE DigitsValue(_)
DigitsValue(ds) ==
  IF ds = <<>> THEN 0
  ELSE 10 * DigitsValue(SubSeq(ds, 1, Len(ds) - 1)) + DigitVal(ds[Len(ds)])

Pow10(n) == 10 ^ n

InfinityText == <<"I", "n", "f", "i", "n", "i", "t", "y">>

StartsWith(s, p) == Len(s) >= Len(p) /\ SubSeq(s, 1, Len(p)) = p

\* parseFloat(s): skips leading white space, reads an optional sign, then
\* "Infinity" or the longest decimal literal (digits, optionally a point and
\* more digits), ignores whatever follows, and gives NaN when no digit was
\* read.  (Exponent parts are not modelled: no "e" occurs in the texts used.)
parseFloat(s) ==
  LET t == Drop(s, Len(TakeWhile(s, WhiteSpace)))
      neg == t # <<>> /\ Head(t) = "-"
      u == IF t # <<>> /\ Head(t) \in {"-", "+"} THEN Tail(t) ELSE t
      ip == TakeWhile(u, Digits)
      r == Drop(u, Len(ip))
      fp == IF r # <<>> /\ Head(r) = "." THEN TakeWhile(Tail(r), Digits) ELSE <<>>
      n == (DigitsValue(ip) * Pow10(Len(fp)) + DigitsValue(fp)) * QuantaPerOne
  IN  IF StartsWith(u, InfinityText) THEN (IF neg THEN NegInfinity ELSE Infinity)
      ELSE IF ip = <<>> /\ fp = <<>> THEN NaN
      ELSE Round(IF neg THEN -n ELSE n, Pow10(Len(fp)))

\* s.replace(/[^\d.-]/g, ''): every character that is not a digit, a point or
\* a minus sign is removed, wherever it stands.
RECURSIVE StripNonNumeric(_)
StripNonNumeric(s) ==
  IF s = <<>> THEN <<>>
  ELSE IF Head(s) \in Digits \cup {".", "-"}
       THEN <<Head(s)>> \o StripNonNumeric(Tail(s))
       ELSE StripNonNumeric(Tail(s))

\* Mutant: of the minus signs only a leading one is kept.
RECURSIVE StripInnerMinus(_)
StripInnerMinus(s) ==
  IF s = <<>> THEN <<>>
  ELSE IF Head(s) = "-" THEN StripInnerMinus(Tail(s))
  ELSE <<Head(s)>> \o StripInnerMinus(Tail(s))

StripKeepLeadingMinus(s) ==
  LET kept == StripNonNumeric(s)
  IN  IF kept = <<>> THEN kept ELSE <<Head(kept)>> \o StripInnerMinus(Tail(kept))

\* Mutant: a numeric amount loses its sign (Math.abs).
parseCurrencyAbs(currency) ==
  IF typeof(currency) = "number" THEN [currency EXCEPT !.val = Abs(@)]
  ELSE LET parsedValue == parseFloat(StripNonNumeric(currency.text))
       IN  IF isNaN(parsedValue) THEN Zero ELSE parsedValue

\* The regular-expression replace of parseCurrency (both copies).
StripCurrency(s) == StripNonNumeric(s)

\* parseCurrency of reconciliation.ts.
parseCurrency(currency) ==
  IF typeof(currency) = "number" THEN currency
  ELSE LET numericString == StripCurrency(currency.text)
           parsedValue == parseFloat(numericString)
       IN  IF isNaN(parsedValue) THEN Zero ELSE parsedValue

\* parseCurrency of ReconciliationResults.tsx: parseFloat(...) || 0.
parseCurrencyDisplay(currencyString) ==
  IF typeof(currencyString) = "number" THEN currencyString
  ELSE LET numberString == StripCurrency(currencyString.text)
       IN  OrZero(parseFloat(numberString))

\* --------------------------------------------------------------- JS Maps
\* A Map is the sequence of its entries in insertion order.
NewMap == <<>>

MapKeys(m) == [i \in 1..Len(m) |-> m[i].key]

MapHas(m, k) == \E i \in 1..Len(m) : m[i].key = k

MapGet(m, k) ==
  IF MapHas(m, k) THEN m[CHOOSE i \in 1..Len(m) : m[i].key = k].value
  ELSE Undefined

MapSet(m, k, v) ==
  IF MapHas(m, k)
  THEN [i \in 1..Len(m) |-> IF m[i].key = k THEN [key |-> k, value |-> v] ELSE m[i]]
  ELSE Append(m, [key |-> k, value |-> v])

\* new Set([...a, ...b]): the keys in order of first occurrence.
RECURSIVE Dedup(_, _)
Dedup(s, seen) ==
  IF s = <<>> THEN <<>>
  ELSE IF Head(s) \in seen THEN Dedup(Tail(s), seen)
  ELSE <<Head(s)>> \o Dedup(Tail(s), seen \cup {Head(s)})

\* Mutant: the keys of both Maps are concatenated and never deduplicated.
NewSetNoDedup(keys) == keys

NewSet(keys) == Dedup(keys, {})

\* -------------------------------------------------------- reconcileLoans
\* Mutant: the amount replaces the running total instead of being added.
AccumulateOverwrite(summary, record) ==
  MapSet(summary, record.firm, parseCurrency(record.amount))

\* One turn of the forEach over lendings / settlements: the running total
\* of record.firm grows by the normalized amount.
Accumulate(summary, record) ==
  LET current == OrZero(MapGet(summary, record.firm))
  IN  MapSet(summary, record.firm, NumAdd(current, parseCurrency(record.amount)))

\* Mutant: the pass stops after the first record.
SummarizeFirstOnly(records, summary) ==
  IF records = <<>> THEN summary ELSE Accumulate(summary, Head(records))

RECURSIVE Summarize(_, _)
Summarize(records, summary) ==
  IF records = <<>> THEN summary
  ELSE Summarize(Tail(records), Accumulate(summary, Head(records)))

StatusOf(netBalance) ==
  IF IsZero(netBalance) THEN "Balanced"
  ELSE IF IsPositive(netBalance) THEN "Overpaid"
  ELSE "Underpaid"

ResultFor(firm, lentSummary, paidSummary) ==
  LET totalLent == OrZero(MapGet(lentSummary, firm))
      totalPaid == OrZero(MapGet(paidSummary, firm))
      netBalance == NumSub(totalPaid, totalLent)
  IN  [firm |-> firm, total_lent |-> totalLent, total_paid |-> totalPaid,
       net_balance |-> netBalance, status |-> StatusOf(netBalance)]

\* Mutant: allFirms is built from the settlement keys first
\* (new Set([...paidSummary.keys(), ...lentSummary.keys()])).
EmitResultsPaidFirst(lentSummary, paidSummary) ==
  LET allFirms == NewSet(MapKeys(paidSummary) \o MapKeys(lentSummary))
  IN  [i \in 1..Len(allFirms) |-> ResultFor(allFirms[i], lentSummary, paidSummary)]

\* The results pushed for allFirms, from the two finished summaries.
EmitResults(lentSummary, paidSummary) ==
  LET allFirms == NewSet(MapKeys(lentSummary) \o MapKeys(paidSummary))
  IN  [i \in 1..Len(allFirms) |-> ResultFor(allFirms[i], lentSummary, paidSummary)]

reconcileLoans(lendings_, settlements_) ==
  EmitResults(Summarize(lendings_, NewMap), Summarize(settlements_, NewMap))

\* ---------------------------------------------------------------- inputs
\* The Number n (an integer), in quanta.
V(n) == Num(n * QuantaPerOne)

Firms == {"A", "B"}

Big == Pow2(Precision)

\* Amounts: the quantum, its negative, the first value of the coarser binade
\* (where sums start to round, and whose double overflows), and a text.
Amounts == {Num(1), Num(-1), Num(Big), Str(<<"R", "5">>)}

Rows == [firm : Firms, amount : Amounts]

RECURSIVE SeqsUpTo(_, _)
SeqsUpTo(S, n) ==
  IF n = 0 THEN {<<>>}
  ELSE LET shorter == SeqsUpTo(S, n - 1)
       IN  shorter \cup {Append(s, x) : s \in {t \in shorter : Len(t) = n - 1}, x \in S}

\* ----------------------------------------------------------------- state
\* lendings, settlements : the records materialized so far (the arguments
\*                         of reconcileLoans)
\* lentSummary, paidSummary : the running per-firm totals of the single
\*                         pass over the records (the two Maps)
\* results, outcome, calls : what the last call of reconcileLoans returned,
\*                         how it ended, and how many calls were made
\* input                 : an amount value handed to the normalizers
\* output                : what parseCurrency of reconciliation.ts returned
\*                         for it (undefined before the call)
\* shown                 : what parseCurrency of ReconciliationResults.tsx
\*                         returned for it (undefined before the call)
VARIABLES lendings, settlements, lentSummary, paidSummary,
          results, outcome, calls, input, output, shown

\* The page (Index.tsx) and its two FileUploader components:
\* lendingsData, settlementsData : the datasets the page holds
\* fileName              : the file name each uploader shows
\* reconciliationResults : the results the page holds
\* isProcessing          : the page's busy flag
\* toast                 : the last toast raised
\* selected              : the last file handed to an uploader, and to which
\* attempt               : how the last selection on each uploader ended
\* invoked               : whether the last handler called reconcileLoans
VARIABLES lendingsData, settlementsData, fileName, reconciliationResults,
          isProcessing, toast, selected, attempt, invoked, reads

pageVars == <<lendingsData, settlementsData, fileName, reconciliationResults,
              isProcessing, toast, selected, attempt, invoked, reads>>

vars == <<lendings, settlements, lentSummary, paidSummary,
          results, outcome, calls, input, output, shown, pageVars>>

Uploaders == {"lendings", "settlements"}

NoToast == [title |-> "none"]

NoFile == [uploader |-> "none"]

\* The page as first rendered: the useState initial values of Index.tsx and
\* of each FileUploader.
PageFresh ==
  /\ lendingsData = <<>>
  /\ settlementsData = <<>>
  /\ fileName = [u \in Uploaders |-> <<>>]
  /\ reconciliationResults = <<>>
  /\ isProcessing = FALSE
  /\ toast = NoToast
  /\ selected = NoFile
  /\ attempt = [u \in Uploaders |-> "none"]
  /\ invoked = FALSE
  /\ reads = <<>>

aggVars == <<lendings, settlements, lentSummary, paidSummary, results, outcome, calls>>

normVars == <<input, output, shown>>

Init ==
  /\ lendings = <<>>
  /\ settlements = <<>>
  /\ lentSummary = NewMap
  /\ paidSummary = NewMap
  /\ results = <<>>
  /\ outcome = "none"
  /\ calls = 0
  /\ input = Undefined
  /\ output = Undefined
  /\ shown = Undefined
  /\ PageFresh

\* The single pass reads the next lending record: one turn of the forEach
\* of lines 105-108.
StreamLending ==
  \E record \in Rows :
    /\ calls = 0
    /\ Len(lendings) + Len(settlements) < MaxRows
    /\ lendings' = Append(lendings, record)
    /\ lentSummary' = Accumulate(lentSummary, record)
    /\ UNCHANGED <<settlements, paidSummary, results, outcome, calls, normVars, pageVars>>

\* The single pass reads the next settlement record: lines 112-115.
StreamSettlement ==
  \E record \in Rows :
    /\ calls = 0
    /\ Len(lendings) + Len(settlements) < MaxRows
    /\ settlements' = Append(settlements, record)
    /\ paidSummary' = Accumulate(paidSummary, record)
    /\ UNCHANGED <<lendings, lentSummary, results, outcome, calls, normVars, pageVars>>

\* A record on which the call throws: parseCurrency calls .replace on an
\* amount that is neither a number nor a string (a TypeError).
RecordThrows(record) == typeof(record.amount) \notin {"number", "string"}

\* Mutant: the call also throws on an empty array (a reduce with no initial
\* value, or a read of element 0).
CallThrowsOnEmpty(lendings_, settlements_) ==
  lendings_ = <<>> \/ settlements_ = <<>>

CallThrows(lendings_, settlements_) ==
  \/ \E i \in 1..Len(lendings_) : RecordThrows(lendings_[i])
  \/ \E i \in 1..Len(settlements_) : RecordThrows(settlements_[i])

\* Mutant: the call consumes its first argument (lendings.shift() in a loop).
ReconcileConsuming ==
  /\ calls < MaxCalls
  /\ outcome' = "returned"
  /\ results' = reconcileLoans(lendings, settlements)
  /\ calls' = calls + 1
  /\ lendings' = <<>>
  /\ UNCHANGED <<settlements, lentSummary, paidSummary, normVars, pageVars>>

\* A call reconcileLoans(lendings, settlements) on the materialized records.
Reconcile ==
  /\ calls < MaxCalls
  /\ IF CallThrows(lendings, settlements)
     THEN outcome' = "threw" /\ UNCHANGED results
     ELSE outcome' = "returned" /\ results' = reconcileLoans(lendings, settlements)
  /\ calls' = calls + 1
  /\ UNCHANGED <<lendings, settlements, lentSummary, paidSummary, normVars, pageVars>>

Next == StreamLending \/ StreamSettlement \/ Reconcile

Spec == Init /\ [][Next]_vars

\* ------------------------------------------------------- the normalizers
\* The characters amount texts are made of: digits, the point, the minus
\* sign, a thousands separator and a currency letter.
TextAlphabet == {"1", "5", ".", "-", ",", "R"}

Texts == SeqsUpTo(TextAlphabet, MaxLen)

NormInputs == {Str(t) : t \in Texts} \cup {V(-42), V(0), Num(1), Num(Big), Infinity, NaN}

InitNorm ==
  /\ input \in NormInputs
  /\ output = Undefined
  /\ shown = Undefined
  /\ lendings = <<>>
  /\ settlements = <<>>
  /\ lentSummary = NewMap
  /\ paidSummary = NewMap
  /\ results = <<>>
  /\ outcome = "none"
  /\ calls = 0
  /\ PageFresh

\* parseCurrency(input) of reconciliation.ts.
Normalize ==
  /\ output = Undefined
  /\ output' = parseCurrency(input)
  /\ UNCHANGED <<input, shown, aggVars, pageVars>>

\* parseCurrency(input) of ReconciliationResults.tsx.
NormalizeForDisplay ==
  /\ shown = Undefined
  /\ shown' = parseCurrencyDisplay(input)
  /\ UNCHANGED <<input, output, aggVars, pageVars>>

NextNorm == Normalize \/ NormalizeForDisplay

SpecNorm == InitNorm /\ [][NextNorm]_vars

\* ---------------------------------------------- FileUploader: JS strings
UpperCase == <<"A", "B", "C", "D", "E", "F", "G", "H", "I", "J", "K", "L", "M",
               "N", "O", "P", "Q", "R", "S", "T", "U", "V", "W", "X", "Y", "Z">>

LowerCase == <<"a", "b", "c", "d", "e", "f", "g", "h", "i", "j", "k", "l", "m",
               "n", "o", "p", "q", "r", "s", "t", "u", "v", "w", "x", "y", "z">>

\* s.toLowerCase()
toLowerCase(s) ==
  [i \in 1..Len(s) |->
     IF \E k \in 1..26 : UpperCase[k] = s[i]
     THEN LowerCase[CHOOSE k \in 1..26 : UpperCase[k] = s[i]]
     ELSE s[i]]

\* F(x) with x evaluated once, as an assignment to a const does.
Bind(x, F(_)) == CHOOSE y \in {F(v) : v \in {x}} : TRUE

Reverse(s) == [i \in 1..Len(s) |-> s[Len(s) + 1 - i]]

\* s.trim(): white space is removed at both ends.
Trim(s) ==
  LET t == Drop(s, Len(TakeWhile(s, WhiteSpace)))
      r == Reverse(t)
  IN  Reverse(Drop(r, Len(TakeWhile(r, WhiteSpace))))

\* s.split(sep) for a one-character separator: at least one piece, the
\* empty string included.
RECURSIVE Split(_, _)
Split(s, sep) ==
  IF \A i \in 1..Len(s) : s[i] # sep THEN <<s>>
  ELSE LET k == CHOOSE i \in 1..Len(s) :
                  s[i] = sep /\ \A j \in 1..(i - 1) : s[j] # sep
       IN  <<SubSeq(s, 1, k - 1)>> \o Split(Drop(s, k), sep)

\* pieces.map(p => p.trim())
TrimAll(pieces) == [i \in 1..Len(pieces) |-> Trim(pieces[i])]

\* s.includes(p)
Includes(s, p) == \E i \in 1..(Len(s) - Len(p) + 1) : SubSeq(s, i, i + Len(p) - 1) = p

\* s.replace(/,/g, ''): every comma is removed.
RemoveCommas(s) == SelectSeq(s, LAMBDA c : c # ",")

INR == <<"i", "n", "r">>

\* s.replace(/INR/i, ''): the first "INR", in any letter case, is removed.
RemoveFirstINR(s) ==
  LET At(i) == toLowerCase(SubSeq(s, i, i + 2)) = INR
  IN  IF \E i \in 1..(Len(s) - 2) : At(i)
      THEN LET k == CHOOSE i \in 1..(Len(s) - 2) : At(i) /\ \A j \in 1..(i - 1) : ~At(j)
           IN  SubSeq(s, 1, k - 1) \o Drop(s, k + 2)
      ELSE s

\* parseFloat(x) of any value: the argument is first converted to a string.
\* A number prints and parses back to itself; undefined prints as
\* "undefined", which has no leading digit.
parseFloatOf(x) ==
  IF typeof(x) = "string" THEN parseFloat(x.text)
  ELSE IF typeof(x) = "number" THEN x
  ELSE NaN

\* !value: undefined, the empty string, zero and NaN are falsy.
Falsy(x) ==
  \/ typeof(x) = "undefined"
  \/ typeof(x) = "string" /\ x.text = <<>>
  \/ typeof(x) = "number" /\ (isNaN(x) \/ IsZero(x))

\* --------------------------------------------- FileUploader: column names
FIRM == <<"f", "i", "r", "m">>

LOAN_AMOUNT == <<"l", "o", "a", "n", "_", "a", "m", "o", "u", "n", "t">>

PAYMENT_AMOUNT == <<"p", "a", "y", "m", "e", "n", "t", "_", "a", "m", "o", "u", "n", "t">>

COMPANY_NAME == <<"c", "o", "m", "p", "a", "n", "y", "_", "n", "a", "m", "e">>

AMOUNT == <<"a", "m", "o", "u", "n", "t">>

\* The expectedColumns prop the page gives each uploader.
expectedColumns(uploader) ==
  IF uploader = "lendings" THEN <<FIRM, LOAN_AMOUNT>> ELSE <<FIRM, PAYMENT_AMOUNT>>

\* ------------------------------------------ FileUploader: parseAndValidate
\* A raw row is an object: its entries in insertion order, like a Map.
\* Thrown errors are records: message names the template of the text, the
\* other fields are the values interpolated into it.
NoDataError == [message |-> "The file contains no data."]

MissingColumnsError(missingColumns) ==
  [message |-> "Missing required columns: ", columns |-> missingColumns]

InvalidAmountError(source, line, value) ==
  [message |-> "Invalid amount in ", source |-> source, line |-> line, value |-> value]

InvalidCompanyNameError(source, line) ==
  [message |-> "Invalid company_name in ", source |-> source, line |-> line]

TypeError == [message |-> "TypeError"]

\* Mutant: the empty check is left out.
NoDataUnchecked(rawData) == FALSE

\* !rawData || rawData.length === 0
NoData(rawData) == rawData = <<>>

\* Object.keys(rawData[0]).map(h => h.trim())
HeadersOf(rawData) == TrimAll(MapKeys(rawData[1]))

\* expectedColumns.filter(col => !headers.includes(col))
MissingColumns(columns, headers) ==
  SelectSeq(columns, LAMBDA col : \A i \in 1..Len(headers) : headers[i] # col)

\* Mutant: the header line is counted as row 0, so the line reported for
\* row i is i + 1.
ValidateAmountHeaderCounted(value, i, source) ==
  Bind(IF typeof(value) = "string"
       THEN Str(Trim(RemoveFirstINR(RemoveCommas(value.text))))
       ELSE value,
       LAMBDA cleaned :
         Bind(parseFloatOf(cleaned),
              LAMBDA parsed :
                IF isNaN(parsed)
                THEN [threw |-> TRUE, error |-> InvalidAmountError(source, i + 1, value)]
                ELSE [threw |-> FALSE, value |-> parsed]))

\* The amount branch (lines 48-57) for a trimmed value.
ValidateAmount(value, i, source) ==
  Bind(IF typeof(value) = "string"
       THEN Str(Trim(RemoveFirstINR(RemoveCommas(value.text))))
       ELSE value,
       LAMBDA cleaned :
         Bind(parseFloatOf(cleaned),
              LAMBDA parsed :
                IF isNaN(parsed)
                THEN [threw |-> TRUE, error |-> InvalidAmountError(source, i + 2, value)]
                ELSE [threw |-> FALSE, value |-> parsed]))

\* The body of the loop over expectedColumns for one header of one row:
\* what is stored under the header, or the error thrown.
ValidateField(row, i, header, source) ==
  Bind(MapGet(row, header),
       LAMBDA valueRaw :
         Bind(IF typeof(valueRaw) = "string" THEN Str(Trim(valueRaw.text)) ELSE valueRaw,
              LAMBDA value :
                IF Includes(toLowerCase(header), AMOUNT)
                THEN ValidateAmount(value, i, source)
                ELSE IF header = COMPANY_NAME
                THEN IF Falsy(value) \/ typeof(value) # "string"
                     THEN [threw |-> TRUE, error |-> InvalidCompanyNameError(source, i + 2)]
                     ELSE [threw |-> FALSE, value |-> value]
                ELSE [threw |-> FALSE, value |-> value]))

\* The loop over expectedColumns for one row (i counts rows from 0).
RECURSIVE ValidateRow(_, _, _, _, _)
ValidateRow(row, i, columns, source, record) ==
  IF columns = <<>> THEN [threw |-> FALSE, record |-> record]
  ELSE Bind(ValidateField(row, i, Head(columns), source),
            LAMBDA field :
              IF field.threw THEN field
              ELSE ValidateRow(row, i, Tail(columns), source,
                               MapSet(record, Head(columns), field.value)))

\* Mutant: each record starts as a copy of its raw row ({ ...row }), so the
\* columns that are not required stay in it.
RECURSIVE ValidateRowsSpread(_, _, _, _, _)
ValidateRowsSpread(rawData, i, columns, source, validated) ==
  IF i >= Len(rawData) THEN [threw |-> FALSE, validated |-> validated]
  ELSE Bind(ValidateRow(rawData[i + 1], i, columns, source, rawData[i + 1]),
            LAMBDA row :
              IF row.threw
              THEN [threw |-> TRUE, error |-> row.error, validated |-> validated]
              ELSE ValidateRowsSpread(rawData, i + 1, columns, source,
                                      Append(validated, row.record)))

\* rawData.forEach from row i on: validated holds the records pushed so far.
RECURSIVE ValidateRows(_, _, _, _, _)
ValidateRows(rawData, i, columns, source, validated) ==
  IF i >= Len(rawData) THEN [threw |-> FALSE, validated |-> validated]
  ELSE Bind(ValidateRow(rawData[i + 1], i, columns, source, NewMap),
            LAMBDA row :
              IF row.threw
              THEN [threw |-> TRUE, error |-> row.error, validated |-> validated]
              ELSE ValidateRows(rawData, i + 1, columns, source,
                                Append(validated, row.record)))

\* Mutant: the rows are validated from the last one to the first
\* (rawData.reverse().forEach).
parseAndValidateBackwards(rawData, source, columns) ==
  IF NoData(rawData)
  THEN [threw |-> TRUE, error |-> NoDataError, validated |-> <<>>]
  ELSE IF rawData = <<>>
  THEN [threw |-> TRUE, error |-> TypeError, validated |-> <<>>]
  ELSE Bind(MissingColumns(columns, HeadersOf(rawData)),
            LAMBDA missingColumns :
              IF missingColumns # <<>>
              THEN [threw |-> TRUE, error |-> MissingColumnsError(missingColumns),
                    validated |-> <<>>]
              ELSE ValidateRows(Reverse(rawData), 0, columns, source, <<>>))

\* parseAndValidate(rawData, source) in an uploader whose prop is columns.
\* On a throw, validated is the local array as it stood (it is dropped).
parseAndValidate(rawData, source, columns) ==
  IF NoData(rawData)
  THEN [threw |-> TRUE, error |-> NoDataError, validated |-> <<>>]
  ELSE IF rawData = <<>>   \* Object.keys(undefined)
  THEN [threw |-> TRUE, error |-> TypeError, validated |-> <<>>]
  ELSE Bind(MissingColumns(columns, HeadersOf(rawData)),
            LAMBDA missingColumns :
              IF missingColumns # <<>>
              THEN [threw |-> TRUE, error |-> MissingColumnsError(missingColumns),
                    validated |-> <<>>]
              ELSE ValidateRows(rawData, 0, columns, source, <<>>))

\* ------------------------------------------ FileUploader: handleFileSelect
CSV == <<"c", "s", "v">>

TSV == <<"t", "s", "v">>

XLSX == <<"x", "l", "s", "x">>

UnsupportedFormatError ==
  [message |-> "Unsupported file format. Please upload CSV, TSV, or XLSX files."]

\* file.name.split('.').pop()?.toLowerCase()
FileExt(name) ==
  LET parts == Split(name, ".")
  IN  toLowerCase(parts[Len(parts)])

\* Mutant: a missing trailing field is left undefined (no ?? '').
RECURSIVE ObjectFromRowNoDefault(_, _, _, _)
ObjectFromRowNoDefault(headers, values, idx, record) ==
  IF idx > Len(headers) THEN record
  ELSE ObjectFromRowNoDefault(headers, values, idx + 1,
         MapSet(record, headers[idx],
                IF idx <= Len(values) THEN Str(values[idx]) ELSE Undefined))

\* headers.forEach((h, idx) => { record[h] = values[idx] ?? '' }) from
\* position idx on (positions count from 1 here).
RECURSIVE ObjectFromRow(_, _, _, _)
ObjectFromRow(headers, values, idx, record) ==
  IF idx > Len(headers) THEN record
  ELSE ObjectFromRow(headers, values, idx + 1,
         MapSet(record, headers[idx],
                IF idx <= Len(values) THEN Str(values[idx]) ELSE Str(<<>>)))

\* The csv/tsv branch: the text is trimmed and split into lines, the first
\* line gives the headers, every other line one raw row.
ParseDelimited(text, delimiter) ==
  Bind(Split(Trim(text), "\n"), LAMBDA lines :
  Bind(TrimAll(Split(lines[1], delimiter)), LAMBDA headers :
    [n \in 1..(Len(lines) - 1) |->
       Bind(TrimAll(Split(lines[n + 1], delimiter)),
            LAMBDA values : ObjectFromRow(headers, values, 1, NewMap))]))

EMPTY_KEY == <<"_", "_", "E", "M", "P", "T", "Y">>

\* The key sheet_to_json gives column idx: the header cell as it stands
\* (not trimmed), "EMPTY_KEY" when the header cell is blank.
SheetKey(header, idx) ==
  IF idx <= Len(header) /\ header[idx] # <<>> THEN header[idx] ELSE EMPTY_KEY

RECURSIVE SheetRowToJson(_, _, _, _)
SheetRowToJson(header, cells, idx, record) ==
  IF idx > Len(cells) THEN record
  ELSE SheetRowToJson(header, cells, idx + 1,
         IF cells[idx] = <<>> THEN record
         ELSE MapSet(record, SheetKey(header, idx), Str(cells[idx])))

\* XLSX.utils.sheet_to_json(sheet) with default options: the first row of
\* the sheet gives the keys, every later row that is not blank gives one
\* object, and a blank cell gives no entry.
sheet_to_json(sheet) ==
  IF sheet = <<>> THEN <<>>
  ELSE LET rows == SelectSeq(Tail(sheet),
                             LAMBDA cells : \E i \in 1..Len(cells) : cells[i] # <<>>)
       IN  [n \in 1..Len(rows) |-> SheetRowToJson(Head(sheet), rows[n], 1, NewMap)]

\* Lines 78-101: the raw rows read from the file, or the error thrown.
ReadRawData(file) ==
  Bind(FileExt(file.name), LAMBDA fileExt :
      IF fileExt = CSV \/ fileExt = TSV
      THEN [threw |-> FALSE,
            rawData |-> ParseDelimited(file.content.text,
                                       IF fileExt = TSV THEN "\t" ELSE ",")]
      ELSE IF fileExt = XLSX
      THEN [threw |-> FALSE, rawData |-> sheet_to_json(file.content.sheets[1])]
      ELSE [threw |-> TRUE, error |-> UnsupportedFormatError])

\* Mutant: what parseAndValidate had pushed before it threw is delivered.
handleFileSelectPartial(file, columns) ==
  Bind(ReadRawData(file),
       LAMBDA raw :
         IF raw.threw THEN [delivered |-> FALSE, error |-> raw.error]
         ELSE Bind(parseAndValidate(raw.rawData, file.name, columns),
                   LAMBDA result :
                     IF result.threw /\ result.validated = <<>>
                     THEN [delivered |-> FALSE, error |-> result.error]
                     ELSE [delivered |-> TRUE, data |-> result.validated]))

\* handleFileSelect(file) in an uploader whose prop is columns: either the
\* file name is set and the data handed to onFileUpload, or the error is
\* caught and shown.
handleFileSelect(file, columns) ==
  Bind(ReadRawData(file),
       LAMBDA raw :
         IF raw.threw THEN [delivered |-> FALSE, error |-> raw.error]
         ELSE Bind(parseAndValidate(raw.rawData, file.name, columns),
                   LAMBDA result :
                     IF result.threw
                     THEN [delivered |-> FALSE, error |-> result.error]
                     ELSE [delivered |-> TRUE, data |-> result.validated]))

\* ---------------------------------------------------------- Index: page
\* record.firm and record.loan_amount / record.payment_amount as
\* reconcileLoans reads them.
RecordsOf(data, amountColumn) ==
  [i \in 1..Len(data) |->
     [firm |-> MapGet(data[i], FIRM), amount |-> MapGet(data[i], amountColumn)]]

\* Mutant: a successful upload also clears the stored results
\* (setReconciliationResults([]) in the upload handlers).
ResumeFileSelectClearing(uploader, file) ==
  \E done \in {handleFileSelect(file, expectedColumns(uploader))} :
      /\ invoked' = FALSE
      /\ IF done.delivered
         THEN /\ fileName' = [fileName EXCEPT ![uploader] = file.name]
              /\ IF uploader = "lendings"
                 THEN lendingsData' = done.data /\ UNCHANGED settlementsData
                 ELSE settlementsData' = done.data /\ UNCHANGED lendingsData
              /\ toast' = [title |-> IF uploader = "lendings"
                                     THEN "Lendings file uploaded"
                                     ELSE "Settlements file uploaded",
                           description |-> Len(done.data)]
              /\ attempt' = [attempt EXCEPT ![uploader] = "ok"]
              /\ reconciliationResults' = <<>>
         ELSE /\ toast' = [title |-> "File parsing error", description |-> done.error]
              /\ attempt' = [attempt EXCEPT ![uploader] = "failed"]
              /\ UNCHANGED <<fileName, lendingsData, settlementsData,
                             reconciliationResults>>
      /\ UNCHANGED <<isProcessing, aggVars, normVars>>

\* handleFileSelect from the point where the content of the file has been
\* read (the await of line 81 or 94 has resumed): the rows are parsed and
\* validated, and on success handleLendingsUpload / handleSettlementsUpload
\* runs.
ResumeFileSelect(uploader, file) ==
  \E done \in {handleFileSelect(file, expectedColumns(uploader))} :
      /\ invoked' = FALSE
      /\ IF done.delivered
         THEN /\ fileName' = [fileName EXCEPT ![uploader] = file.name]
              /\ IF uploader = "lendings"
                 THEN lendingsData' = done.data /\ UNCHANGED settlementsData
                 ELSE settlementsData' = done.data /\ UNCHANGED lendingsData
              /\ toast' = [title |-> IF uploader = "lendings"
                                     THEN "Lendings file uploaded"
                                     ELSE "Settlements file uploaded",
                           description |-> Len(done.data)]
              /\ attempt' = [attempt EXCEPT ![uploader] = "ok"]
         ELSE /\ toast' = [title |-> "File parsing error", description |-> done.error]
              /\ attempt' = [attempt EXCEPT ![uploader] = "failed"]
              /\ UNCHANGED <<fileName, lendingsData, settlementsData>>
      /\ UNCHANGED <<reconciliationResults, isProcessing, aggVars, normVars>>

\* A file is handed to an uploader (picked or dropped) and its read
\* completes before anything else happens on the page.
SelectFile(uploader, file) ==
  /\ selected' = [uploader |-> uploader, file |-> file]
  /\ UNCHANGED reads
  /\ ResumeFileSelect(uploader, file)

\* Mutant: the check for missing files is left out, so reconcileLoans is
\* called on whatever the page holds.
handleReconciliationUnguarded ==
  /\ \E lendings_ \in {RecordsOf(lendingsData, LOAN_AMOUNT)},
        settlements_ \in {RecordsOf(settlementsData, PAYMENT_AMOUNT)} :
         /\ invoked' = TRUE
         /\ IF CallThrows(lendings_, settlements_)
            THEN /\ toast' = [title |-> "Reconciliation failed"]
                 /\ UNCHANGED reconciliationResults
            ELSE /\ reconciliationResults' = reconcileLoans(lendings_, settlements_)
                 /\ toast' = [title |-> "Reconciliation complete",
                              description |-> Len(reconciliationResults')]
  /\ isProcessing' = FALSE
  /\ UNCHANGED <<lendingsData, settlementsData, fileName, selected, attempt,
                 reads, aggVars, normVars>>

\* handleReconciliation: the button "Run Reconciliation".
handleReconciliation ==
  /\ IF lendingsData = <<>> \/ settlementsData = <<>>
     THEN /\ toast' = [title |-> "Missing files"]
          /\ invoked' = FALSE
          /\ UNCHANGED reconciliationResults
     ELSE \E lendings_ \in {RecordsOf(lendingsData, LOAN_AMOUNT)},
             settlements_ \in {RecordsOf(settlementsData, PAYMENT_AMOUNT)} :
              /\ invoked' = TRUE
              /\ IF CallThrows(lendings_, settlements_)
                 THEN /\ toast' = [title |-> "Reconciliation failed"]
                      /\ UNCHANGED reconciliationResults
                 ELSE /\ reconciliationResults' = reconcileLoans(lendings_, settlements_)
                      /\ toast' = [title |-> "Reconciliation complete",
                                   description |-> Len(reconciliationResults')]
  /\ isProcessing' = FALSE
  /\ UNCHANGED <<lendingsData, settlementsData, fileName, selected, attempt,
                 reads, aggVars, normVars>>

\* The button "Run Reconciliation" is disabled while this holds.
RunDisabled == isProcessing \/ lendingsData = <<>> \/ settlementsData = <<>>

\* ------------------------------------------------------- files as inputs
\* A table is a header row and data rows of cell texts.  A file is a name
\* and the table saved in the format the name stands for: delimited text
\* (cells joined by the delimiter, one line per row) or a workbook whose
\* first sheet holds the rows.
RECURSIVE Join(_, _)
Join(pieces, sep) ==
  IF pieces = <<>> THEN <<>>
  ELSE IF Len(pieces) = 1 THEN pieces[1]
  ELSE pieces[1] \o <<sep>> \o Join(Tail(pieces), sep)

LinesOf(table) ==
  (IF table.header = <<>> THEN <<>> ELSE <<table.header>>) \o table.rows

TextOf(table, delimiter) ==
  LET lines == LinesOf(table)
  IN  IF lines = <<>> THEN <<>>
      ELSE Join([n \in 1..Len(lines) |-> Join(lines[n], delimiter)], "\n") \o <<"\n">>

FileOf(name, table) ==
  [name |-> name,
   table |-> table,
   content |-> IF FileExt(name) = XLSX
               THEN [kind |-> "workbook", sheets |-> <<LinesOf(table)>>]
               ELSE [kind |-> "text",
                     text |-> TextOf(table, IF FileExt(name) = TSV THEN "\t" ELSE ",")]]

FileNames ==
  {<<"a", ".", "C", "S", "V">>, <<"a", ".", "t", "s", "v">>,
   <<"a", ".", "x", "l", "s", "x">>, <<"a", ".", "t", "x", "t">>,
   <<"c", "s", "v">>}

NOTE == <<"n">>

HeaderRows ==
  {<<FIRM, LOAN_AMOUNT>>,
   <<<<" ">> \o FIRM, PAYMENT_AMOUNT \o <<" ">>>>,
   <<FIRM, LOAN_AMOUNT, NOTE>>,
   <<AMOUNT>>,
   <<>>}

AmountCells == {<<"5">>, <<"R", "5">>, <<>>, <<"1", ",", "5">>, <<"5", " ", "I", "N", "R">>}

\* A row of firm A with each amount cell, a row with a blank firm cell, a
\* row that stops after its first cell, and a row with a third cell.
DataRows ==
  {<<<<"A">>, a>> : a \in AmountCells}
    \cup {<<<<>>, <<"5">>>>, <<<<"A">>>>, <<<<"A">>, <<"5">>, <<"x">>>>}

Tables == [header : HeaderRows, rows : SeqsUpTo(DataRows, MaxDataRows)]

Files == {FileOf(name, table) : name \in FileNames, table \in Tables}

\* One file is handed to one of the two uploaders of a fresh page.
Ingest ==
  \E uploader \in Uploaders, file \in Files :
    /\ selected = NoFile
    /\ SelectFile(uploader, file)

InitIngest ==
  /\ PageFresh
  /\ lendings = <<>>
  /\ settlements = <<>>
  /\ lentSummary = NewMap
  /\ paidSummary = NewMap
  /\ results = <<>>
  /\ outcome = "none"
  /\ calls = 0
  /\ input = Undefined
  /\ output = Undefined
  /\ shown = Undefined

NextIngest == Ingest

SpecIngest == InitIngest /\ [][NextIngest]_vars

\* --------------------------------------------- the page over many clicks
\* The files at hand: under three names, with either header, a table of one
\* good row, of two good rows, and of a good row followed by a bad one.
PageFileNames ==
  {<<"a", ".", "c", "s", "v">>, <<"b", ".", "t", "s", "v">>, <<"c", ".", "t", "x", "t">>}

PageHeaders == {<<FIRM, LOAN_AMOUNT>>, <<FIRM, PAYMENT_AMOUNT>>}

PageRows ==
  {<< <<<<"A">>, <<"5">>>> >>,
   << <<<<"A">>, <<"5">>>>, <<<<"B">>, <<"1">>>> >>,
   << <<<<"A">>, <<"5">>>>, <<<<"B">>, <<"R", "5">>>> >>}

PageFiles ==
  {FileOf(name, [header |-> header, rows |-> rows]) :
     name \in PageFileNames, header \in PageHeaders, rows \in PageRows}

\* A file is picked for, or dropped on, the lendings uploader.
UploadLendings == \E file \in PageFiles : SelectFile("lendings", file)

\* A file is picked for, or dropped on, the settlements uploader.
UploadSettlements == \E file \in PageFiles : SelectFile("settlements", file)

\* The enabled button "Run Reconciliation" is clicked.
Run == ~RunDisabled /\ handleReconciliation

NextPage == UploadLendings \/ UploadSettlements \/ Run

SpecPage == InitIngest /\ [][NextPage]_vars

\* ---------------------------------------------------------------- claims
Returned == calls > 0 /\ outcome = "returned"

\* a < 0
IsNegative(a) == typeof(a) = "number" /\ a.kind # "nan" /\ a.val < 0

FirmsOf(records) == {records[i].firm : i \in 1..Len(records)}

Range(seq) == {seq[i] : i \in 1..Len(seq)}

\* array.reduce((sum, x) => sum + x, 0)
RECURSIVE SumNums(_)
SumNums(nums) ==
  IF nums = <<>> THEN Zero
  ELSE NumAdd(SumNums(SubSeq(nums, 1, Len(nums) - 1)), nums[Len(nums)])

AmountsOf(records) == [i \in 1..Len(records) |-> parseCurrency(records[i].amount)]

RowsOfFirm(records, firm) == SelectSeq(records, LAMBDA r : r.firm = firm)

Field(res, name) == [i \in 1..Len(res) |-> res[i][name]]

\* C1: union completeness -- a returned result list holds exactly one result
\* for every firm that occurs in lendings or in settlements, and no result
\* for any other firm.
C1_UnionCompleteness ==
  Returned =>
    /\ \A k \in FirmsOf(lendings) \cup FirmsOf(settlements) :
         Cardinality({i \in 1..Len(results) : results[i].firm = k}) = 1
    /\ \A i \in 1..Len(results) :
         results[i].firm \in FirmsOf(lendings) \cup FirmsOf(settlements)

C1_Witness ==
  /\ Returned
  /\ FirmsOf(lendings) = {"A"}
  /\ FirmsOf(settlements) = {"A", "B"}
  /\ Len(lendings) = 2
  /\ Len(results) = 2

\* C2: conservation -- the sum of net_balance over the results equals the sum
\* of the settlement amounts minus the sum of the lending amounts, exactly
\* (every sum taken as the code takes sums: left to right, in Number
\* arithmetic).
C2_Conservation ==
  Returned =>
    SumNums(Field(results, "net_balance"))
      = NumSub(SumNums(AmountsOf(settlements)), SumNums(AmountsOf(lendings)))

\* C3: status consistency -- in every result the status is Balanced exactly
\* when net_balance is 0, Overpaid exactly when it is > 0, and Underpaid
\* exactly when it is < 0.
C3_StatusConsistency ==
  Returned =>
    \A i \in 1..Len(results) :
      /\ results[i].status = "Balanced" <=> IsZero(results[i].net_balance)
      /\ results[i].status = "Overpaid" <=> IsPositive(results[i].net_balance)
      /\ results[i].status = "Underpaid" <=> IsNegative(results[i].net_balance)

\* The left-to-right sum of the normalized amounts of one firm's records.
SumOfFirm(records, firm) == SumNums(AmountsOf(RowsOfFirm(records, firm)))

ExampleLendings == <<[firm |-> "A", amount |-> V(200)]>>

ExampleSettlements ==
  <<[firm |-> "A", amount |-> V(150)], [firm |-> "C", amount |-> V(30)]>>

ExampleResults ==
  << [firm |-> "A", total_lent |-> V(200), total_paid |-> V(150),
      net_balance |-> V(-50), status |-> "Underpaid"],
     [firm |-> "C", total_lent |-> V(0), total_paid |-> V(30),
      net_balance |-> V(30), status |-> "Overpaid"] >>

PermsOf(seq) ==
  {[i \in 1..Len(seq) |-> seq[p[i]]] : p \in Permutations(1..Len(seq))}

\* C5: order insensitivity -- whatever the order of the rows of lendings and
\* of settlements, reconcileLoans returns the same set of results.
C5_OrderInsensitive ==
  Returned =>
    \A l \in PermsOf(lendings) : \A s \in PermsOf(settlements) :
      Range(reconcileLoans(l, s)) = Range(results)

C7_NeverThrows ==
  calls > 0 => outcome = "returned"

C7_Witness ==
  /\ calls > 0
  /\ outcome = "returned"
  /\ lendings = <<>>
  /\ settlements # <<>>
  /\ Len(results) = 2

C9_NumericUnchanged ==
  /\ parseCurrency(V(-42)) = V(-42)
  /\ \A r \in Range(lendings) \cup Range(settlements) :
       typeof(r.amount) = "number" => parseCurrency(r.amount) = r.amount
  /\ Returned =>
       \A i \in 1..Len(results) :
         LET mine == RowsOfFirm(lendings, results[i].firm)
         IN  (Len(mine) = 1 /\ IsNegative(mine[1].amount)) =>
               (results[i].total_lent = mine[1].amount /\ IsNegative(results[i].total_lent))

C9_Witness ==
  /\ Returned
  /\ \E i \in 1..Len(results) :
       /\ IsNegative(results[i].total_lent)
       /\ Len(RowsOfFirm(lendings, results[i].firm)) = 1

\* ---- texts, read independently of parseFloat
IsText(x) == typeof(x) = "string"

Prefixes(t) == {SubSeq(t, 1, k) : k \in 0..Len(t)}

Unsigned(p) == IF p # <<>> /\ Head(p) = "-" THEN Tail(p) ELSE p

CountOf(p, c) == Cardinality({i \in 1..Len(p) : p[i] = c})

\* p is a decimal number: an optional minus sign, then digits with at most
\* one point among them, and at least one digit.
IsDecimal(p) ==
  LET body == Unsigned(p)
  IN  /\ \A i \in 1..Len(body) : body[i] \in Digits \cup {"."}
      /\ CountOf(body, ".") <= 1
      /\ \E i \in 1..Len(body) : body[i] \in Digits

\* The Number a decimal number p denotes.
DecimalValue(p) ==
  LET body == Unsigned(p)
      digits == SelectSeq(body, LAMBDA c : c \in Digits)
      point == IF CountOf(body, ".") = 0 THEN Len(body) + 1
               ELSE CHOOSE i \in 1..Len(body) : body[i] = "."
      places == IF CountOf(body, ".") = 0 THEN 0 ELSE Len(body) - point
      n == DigitsValue(digits) * QuantaPerOne
  IN  Round(IF p # Unsigned(p) THEN -n ELSE n, Pow10(places))

\* The remainder the claim describes: only digits, points and a leading
\* minus sign survive (a minus sign after the first surviving character is
\* removed too).
ClaimedRemainder(t) ==
  LET kept == SelectSeq(t, LAMBDA c : c \in Digits \cup {".", "-"})
  IN  IF kept = <<>> THEN kept
      ELSE <<Head(kept)>> \o SelectSeq(Tail(kept), LAMBDA c : c # "-")

\* The remainder the code builds: every digit, point and minus sign survives.
KeptRemainder(t) == SelectSeq(t, LAMBDA c : c \in Digits \cup {".", "-"})

\* The value of the longest prefix of r that is a decimal number, 0 when no
\* prefix is one.
LeadingDecimal(r) ==
  LET good == {p \in Prefixes(r) : IsDecimal(p)}
  IN  IF good = {} THEN Zero
      ELSE DecimalValue(CHOOSE p \in good : \A q \in good : Len(q) <= Len(p))

Picked == selected # NoFile

DataOf(uploader) == IF uploader = "lendings" THEN lendingsData ELSE settlementsData

AmountColumn(uploader) == expectedColumns(uploader)[2]

Readable(file) == ~ReadRawData(file).threw

RawRowsOf(file) == ReadRawData(file).rawData

HasColumns(rawData, columns) ==
  rawData # <<>> /\ MissingColumns(columns, HeadersOf(rawData)) = <<>>

\* Every raw amount of the raw rows is a text the normalizer reads as a
\* decimal number once the other characters are stripped.
AmountsNormalizable(rawData, column) ==
  \A n \in 1..Len(rawData) :
    /\ IsText(MapGet(rawData[n], column))
    /\ IsDecimal(KeptRemainder(MapGet(rawData[n], column).text))

\* C11 as stated: ingestion routes every amount through the normalizer: a
\* readable file with the required columns whose raw amounts the normalizer
\* reads as numbers is ingested, and each stored amount is
\* parseCurrency(raw) (so "R5", a currency symbol before 5, is stored as 5).
C11_RoutedThroughNormalizer ==
  (/\ Picked
   /\ Readable(selected.file)
   /\ HasColumns(RawRowsOf(selected.file), expectedColumns(selected.uploader))
   /\ AmountsNormalizable(RawRowsOf(selected.file), AmountColumn(selected.uploader)))
    => /\ attempt[selected.uploader] = "ok"
       /\ Len(DataOf(selected.uploader)) = Len(RawRowsOf(selected.file))
       /\ \A n \in 1..Len(RawRowsOf(selected.file)) :
            MapGet(DataOf(selected.uploader)[n], AmountColumn(selected.uploader))
              = parseCurrency(MapGet(RawRowsOf(selected.file)[n],
                                     AmountColumn(selected.uploader)))

\* Side fact: whenever a file is ingested, each stored amount is
\* parseCurrency(raw).
IngestedAgreesWithNormalizer ==
  (Picked /\ attempt[selected.uploader] = "ok")
    => \A n \in 1..Len(DataOf(selected.uploader)) :
         MapGet(DataOf(selected.uploader)[n], AmountColumn(selected.uploader))
           = parseCurrency(MapGet(RawRowsOf(selected.file)[n],
                                  AmountColumn(selected.uploader)))

\* C12 as stated: a text whose stripped remainder is not a decimal number
\* (empty, more than one point, or otherwise not numeric) gets the failure
\* policy of parseCurrency, zero, and never a number read from a prefix of
\* the remainder.
C12_FailurePolicyNoPrefix ==
  (IsText(input) /\ output # Undefined /\ ~IsDecimal(KeptRemainder(input.text)))
    => output = Zero

\* A text the normalizers cannot read as a decimal number once stripped.
Unparseable(raw) == IsText(raw) /\ ~IsDecimal(KeptRemainder(raw.text))

\* C13 as stated: an unparseable amount text gets the same treatment at
\* every place that normalizes amounts: where the uploader meets it in a row
\* of a readable file with the required columns, either the uploader rejects
\* the file and parseCurrency rejects the text too (it never does), or the
\* uploader stores zero and parseCurrency returns zero.
C13_UniformPolicy ==
  (/\ Picked
   /\ Readable(selected.file)
   /\ HasColumns(RawRowsOf(selected.file), expectedColumns(selected.uploader)))
    => \A n \in 1..Len(RawRowsOf(selected.file)) :
         LET raw == MapGet(RawRowsOf(selected.file)[n], AmountColumn(selected.uploader))
         IN  Unparseable(raw)
               => /\ attempt[selected.uploader] = "ok"
                  /\ MapGet(DataOf(selected.uploader)[n],
                            AmountColumn(selected.uploader)) = Zero
                  /\ parseCurrency(raw) = Zero

HasDot(name) == \E i \in 1..Len(name) : name[i] = "."

\* The extension of a file name: what follows its last dot, in lower case;
\* a name without a dot has none (the empty text).
ExtensionOf(name) ==
  IF HasDot(name)
  THEN toLowerCase(Drop(name, CHOOSE i \in 1..Len(name) :
                                name[i] = "." /\ \A j \in (i + 1)..Len(name) : name[j] # "."))
  ELSE <<>>

\* The selection was refused as an unsupported format and nothing reached
\* the page.
RefusedAsUnsupported ==
  /\ attempt[selected.uploader] = "failed"
  /\ toast = [title |-> "File parsing error", description |-> UnsupportedFormatError]
  /\ DataOf(selected.uploader) = <<>>
  /\ fileName[selected.uploader] = <<>>

\* C14 as stated: a file whose extension is none of csv, tsv and xlsx is
\* refused with the unsupported-format error and no dataset is delivered.
C14_UnsupportedRefused ==
  (Picked /\ ExtensionOf(selected.file.name) \notin {CSV, TSV, XLSX})
    => RefusedAsUnsupported

\* Side fact: the same, for the file names that contain a dot.
UnsupportedRefusedWithDot ==
  (/\ Picked
   /\ HasDot(selected.file.name)
   /\ ExtensionOf(selected.file.name) \notin {CSV, TSV, XLSX})
    => RefusedAsUnsupported

\* The rows of a file as they lie in it: the first is its header.
FirstLine(file) == LinesOf(file.table)[1]

\* The names in the header of a file, trimmed (none in an empty file).
FileHeaderNames(file) ==
  IF LinesOf(file.table) = <<>> THEN {} ELSE Range(TrimAll(FirstLine(file)))

\* The column names the first raw row read from a file carries, trimmed.
FirstRowNames(file) == Range(TrimAll(MapKeys(RawRowsOf(file)[1])))

MissingOf(required, present) == {col \in Range(required) : col \notin present}

\* The selection failed with the schema error, which names exactly the
\* columns of the set missing, each once.
SchemaErrorNaming(missing) ==
  /\ attempt[selected.uploader] = "failed"
  /\ toast.title = "File parsing error"
  /\ toast.description.message = "Missing required columns: "
  /\ Range(toast.description.columns) = missing
  /\ Len(toast.description.columns) = Cardinality(missing)

\* C15 as stated: when required columns are absent from the header of a
\* file that is read, validation fails with an error that names every
\* missing required column and no column that is present.
C15_NamesMissingColumns ==
  /\ (/\ Picked
      /\ Readable(selected.file)
      /\ MissingOf(expectedColumns(selected.uploader), FileHeaderNames(selected.file)) # {})
       => SchemaErrorNaming(MissingOf(expectedColumns(selected.uploader),
                                      FileHeaderNames(selected.file)))
  /\ (/\ Picked
      /\ toast.title = "File parsing error"
      /\ toast.description.message = "Missing required columns: ")
       => Range(toast.description.columns)
            \subseteq MissingOf(expectedColumns(selected.uploader),
                                FileHeaderNames(selected.file))

\* Side fact: when at least one raw row is read from the file and required
\* columns are absent from the names the first raw row carries, validation
\* fails with an error that names every such column, each once, and no
\* other.
NamesColumnsFirstRowLacks ==
  (/\ Picked
   /\ Readable(selected.file)
   /\ RawRowsOf(selected.file) # <<>>
   /\ MissingOf(expectedColumns(selected.uploader), FirstRowNames(selected.file)) # {})
    => SchemaErrorNaming(MissingOf(expectedColumns(selected.uploader),
                                   FirstRowNames(selected.file)))

\* C16: a file of a supported format that has no data row after its header
\* (a file with no content at all included) fails with the empty-dataset
\* error, and nothing is delivered.
C16_EmptyDatasetError ==
  (Picked /\ Readable(selected.file) /\ selected.file.table.rows = <<>>)
    => /\ attempt[selected.uploader] = "failed"
       /\ toast = [title |-> "File parsing error", description |-> NoDataError]
       /\ DataOf(selected.uploader) = <<>>
       /\ fileName[selected.uploader] = <<>>

C16_Witness ==
  /\ Picked
  /\ selected.file.content.kind = "workbook"
  /\ selected.file.table = [header |-> <<FIRM, LOAN_AMOUNT>>, rows |-> <<>>]
  /\ toast = [title |-> "File parsing error", description |-> NoDataError]

\* A value fit to identify a counterparty: a text that is not empty.
IsIdentifier(x) == IsText(x) /\ x.text # <<>>

\* C17 as stated: a readable file with the required columns in which a data
\* row has an empty (or non-text) identifier is rejected, and no record the
\* page holds has an empty identifier.
C17_IdentifierRequired ==
  /\ (/\ Picked
      /\ Readable(selected.file)
      /\ HasColumns(RawRowsOf(selected.file), expectedColumns(selected.uploader))
      /\ \E n \in 1..Len(RawRowsOf(selected.file)) :
           ~IsIdentifier(MapGet(RawRowsOf(selected.file)[n], FIRM)))
       => attempt[selected.uploader] = "failed"
  /\ \A uploader \in Uploaders :
       \A n \in 1..Len(DataOf(uploader)) :
         IsIdentifier(MapGet(DataOf(uploader)[n], FIRM))

\* ---------------------------------------------------------- claims: page
\* Some raw row of the file fails the row validation of the uploader.
RowFails(uploader, file) ==
  \E raw \in {ReadRawData(file)} :
    /\ ~raw.threw
    /\ HasColumns(raw.rawData, expectedColumns(uploader))
    /\ \E n \in 1..Len(raw.rawData) :
         ValidateRow(raw.rawData[n], n - 1, expectedColumns(uploader),
                     file.name, NewMap).threw

\* C18: when a file with a failing row is handed to an uploader, the file is
\* rejected with an error toast and the page keeps the datasets and the file
\* names it had: no row of the file is delivered.
C18_AllOrNothing ==
  [][(invoked' = FALSE /\ RowFails(selected'.uploader, selected'.file))
       => /\ attempt'[selected'.uploader] = "failed"
          /\ toast'.title = "File parsing error"
          /\ lendingsData' = lendingsData
          /\ settlementsData' = settlementsData
          /\ fileName' = fileName]_vars

\* A failing file met an uploader that held two records of another file.
C18_Witness ==
  /\ selected # NoFile
  /\ selected.uploader = "lendings"
  /\ selected.file.name = <<"a", ".", "c", "s", "v">>
  /\ RowFails("lendings", selected.file)
  /\ Len(selected.file.table.rows) = 2
  /\ attempt["lendings"] = "failed"
  /\ Len(lendingsData) = 2
  /\ fileName["lendings"] = <<"b", ".", "t", "s", "v">>

\* C19 as stated: reconcileLoans is not called while the last selection on
\* either uploader has failed.
C19_NoRunAfterFailure ==
  invoked => (attempt["lendings"] # "failed" /\ attempt["settlements"] # "failed")

\* -------------------------------------------------------- claims: summary
\* reconciliationResults.filter(r => r.status === status).length
CountWithStatus(res, status) == Len(SelectSeq(res, LAMBDA r : r.status = status))

\* reconciliationResults.reduce((sum, r) => sum + r.total_lent, 0)
totalLent(res) == SumNums(Field(res, "total_lent"))

\* reconciliationResults.reduce((sum, r) => sum + r.total_paid, 0)
totalPaid(res) == SumNums(Field(res, "total_paid"))

\* The "Net Difference" card of the page: totalPaid - totalLent.
NetDifference(res) == NumSub(totalPaid(res), totalLent(res))

\* The "Net balance" line handed to the assistant:
\* reconciliationResults.reduce((sum, r) => sum + r.net_balance, 0)
NetBalanceTotal(res) == SumNums(Field(res, "net_balance"))

\* Side fact: the counts of Balanced, Overpaid and Underpaid results add up
\* to the number of results.
StatusCountsAddUp ==
  Returned =>
    CountWithStatus(results, "Balanced") + CountWithStatus(results, "Overpaid")
      + CountWithStatus(results, "Underpaid") = Len(results)

\* C20 as stated: for every result list the status counts add up to the
\* number of results, and the net balance handed to the assistant is the
\* same number as the Net Difference the page shows.
C20_SummaryConsistency ==
  Returned =>
    /\ CountWithStatus(results, "Balanced") + CountWithStatus(results, "Overpaid")
         + CountWithStatus(results, "Underpaid") = Len(results)
    /\ NetBalanceTotal(results) = NetDifference(results)

\* ------------------------------------------------ claims: identifier keys
\* Files whose rows name one counterparty in several spellings: plain, with
\* surrounding whitespace, and in the other letter case.  They come as csv
\* and as xlsx, with the header as required and with a space before "firm".
GroupNames == {<<"a", ".", "c", "s", "v">>, <<"a", ".", "x", "l", "s", "x">>}

GroupFirmCells == {<<"A">>, <<" ", "A", " ">>, <<"a">>}

GroupRows == {<<cell, <<"5">>>> : cell \in GroupFirmCells}

GroupTables(amountColumn) ==
  [header : {<<FIRM, amountColumn>>, <<<<" ">> \o FIRM, amountColumn>>},
   rows : SeqsUpTo(GroupRows, 2) \ {<<>>}]

GroupLendingsFiles ==
  {FileOf(name, table) : name \in GroupNames, table \in GroupTables(LOAN_AMOUNT)}

GroupSettlementsFiles ==
  {FileOf(<<"a", ".", "c", "s", "v">>, [header |-> <<FIRM, PAYMENT_AMOUNT>>, rows |-> <<row>>]) :
     row \in GroupRows}

GroupUploadLendings == \E file \in GroupLendingsFiles : SelectFile("lendings", file)

GroupUploadSettlements == \E file \in GroupSettlementsFiles : SelectFile("settlements", file)

NextGroup == GroupUploadLendings \/ GroupUploadSettlements \/ Run

SpecGroup == InitIngest /\ [][NextGroup]_vars

\* Run Reconciliation has returned results for the datasets the page holds.
Reconciled == invoked /\ toast.title = "Reconciliation complete"

\* The identifier cell of the n-th data row of the file selected last.
IdentifierCell(n) == selected.file.table.rows[n][1]

\* The results the n-th row of the file selected last was summed into: those
\* keyed by the firm of the record ingested from it.
ResultsOfRow(n) ==
  {i \in 1..Len(reconciliationResults) :
     reconciliationResults[i].firm = MapGet(DataOf(selected.uploader)[n], FIRM)}

\* C21 as stated: identifiers are grouped by exact value after trimming:
\* after ingestion and reconcileLoans, two rows whose identifiers differ only
\* in surrounding whitespace fall in the same result, and two rows whose
\* identifiers differ in letter case fall in different results.
C21_GroupedByTrimmedValue ==
  Reconciled =>
    \A i, j \in 1..Len(selected.file.table.rows) :
      /\ Trim(IdentifierCell(i)) = Trim(IdentifierCell(j))
           => ResultsOfRow(i) = ResultsOfRow(j) /\ Cardinality(ResultsOfRow(i)) = 1
      /\ Trim(IdentifierCell(i)) # Trim(IdentifierCell(j))
           => ResultsOfRow(i) \cap ResultsOfRow(j) = {}

\* The key sheet_to_json gave the identifier column is the required name.
IdentifierKeyExact ==
  selected.file.content.kind = "workbook" => selected.file.table.header[1] = FIRM

\* Side fact: the same, for files whose identifier column reaches validation
\* under the name "firm".
GroupedByTrimmedValueExactKey ==
  (Reconciled /\ IdentifierKeyExact) =>
    \A i, j \in 1..Len(selected.file.table.rows) :
      /\ Trim(IdentifierCell(i)) = Trim(IdentifierCell(j))
           => ResultsOfRow(i) = ResultsOfRow(j) /\ Cardinality(ResultsOfRow(i)) = 1
      /\ Trim(IdentifierCell(i)) # Trim(IdentifierCell(j))
           => ResultsOfRow(i) \cap ResultsOfRow(j) = {}

\* ------------------------------------------------- claims: delimited text
\* The file selected last is delimited text (csv or tsv).
DelimitedPicked ==
  Picked /\ FileExt(selected.file.name) \in {CSV, TSV}

DelimiterOf(file) == IF FileExt(file.name) = TSV THEN "\t" ELSE ","

\* The lines of a delimited file: the first is its header line.
TextLines(file) == Split(Trim(file.content.text), "\n")

\* The number of fields the delimiter cuts a line into.
FieldCount(line, delimiter) == Len(Split(line, delimiter))

\* C22: for delimited text, a data line with fewer fields than the header
\* has yields a raw row in which every missing trailing field is the empty
\* string, and reading the file into raw rows raises no error.
C22_ShortLinePadded ==
  DelimitedPicked =>
    /\ Readable(selected.file)
    /\ Len(RawRowsOf(selected.file)) = Len(TextLines(selected.file)) - 1
    /\ \A n \in 1..Len(RawRowsOf(selected.file)) :
         LET delimiter == DelimiterOf(selected.file)
             names == TrimAll(Split(TextLines(selected.file)[1], delimiter))
             fields == FieldCount(TextLines(selected.file)[n + 1], delimiter)
         IN  \A idx \in (fields + 1)..Len(names) :
               MapGet(RawRowsOf(selected.file)[n], names[idx]) = Str(<<>>)

\* A csv file whose second data line stops after the identifier was read.
C22_Witness ==
  /\ DelimitedPicked
  /\ selected.file.content.text
       = FIRM \o <<",">> \o LOAN_AMOUNT \o <<"\n", "A", ",", "5", "\n", "A", "\n">>
  /\ RawRowsOf(selected.file)[2]
       = <<[key |-> FIRM, value |-> Str(<<"A">>)],
           [key |-> LOAN_AMOUNT, value |-> Str(<<>>)]>>
  /\ attempt[selected.uploader] = "failed"

\* ------------------------------------------------- claims: row validation
\* The selection failed with a row-level validation error.
RowErrorShown ==
  /\ Picked
  /\ attempt[selected.uploader] = "failed"
  /\ toast.title = "File parsing error"
  /\ toast.description.message \in {"Invalid amount in ", "Invalid company_name in "}

\* The k-th raw row (k from 1) of the file fails the row validation.
RowInvalid(uploader, file, k) ==
  ValidateRow(RawRowsOf(file)[k], k - 1, expectedColumns(uploader), file.name, NewMap).threw

\* The first (lowest) k for which the k-th raw row is invalid.
FirstInvalidRow(uploader, file) ==
  CHOOSE k \in 1..Len(RawRowsOf(file)) :
    /\ RowInvalid(uploader, file, k)
    /\ \A j \in 1..(k - 1) : ~RowInvalid(uploader, file, j)

\* The amount of a raw row as read, a text without its surrounding
\* whitespace.
RawAmount(row, column) ==
  LET raw == MapGet(row, column)
  IN  IF IsText(raw) THEN Str(Trim(raw.text)) ELSE raw

\* C23: a row-level validation error reports a line number that does not
\* count the header as a data row: the k-th data row (k from 1) is reported
\* as line k + 1, the first data row as line 2; the invalid-amount error
\* names the file and carries the amount of that row as it was read.
C23_LineNumberSkipsHeader ==
  RowErrorShown =>
    \E k \in {FirstInvalidRow(selected.uploader, selected.file)} :
      /\ toast.description.line = k + 1
      /\ toast.description.line >= 2
      /\ toast.description.source = selected.file.name
      /\ toast.description.message = "Invalid amount in "
           => toast.description.value
                = RawAmount(RawRowsOf(selected.file)[k], AmountColumn(selected.uploader))

\* The second data row of a csv file has the amount "R5": line 3.
C23_Witness ==
  /\ RowErrorShown
  /\ selected.file.content.kind = "text"
  /\ selected.file.table.rows = << <<<<"A">>, <<"5">>>>, <<<<"A">>, <<"R", "5">>>> >>
  /\ toast.description.line = 3
  /\ toast.description.value = Str(<<"R", "5">>)

\* The file selected last was ingested: its records are the dataset.
Ingested == Picked /\ attempt[selected.uploader] = "ok"

\* C24: every validated record has exactly the required columns as its
\* fields: the columns of the file that are not required are dropped, and
\* every required column is present in the record.
C24_ExactlyRequiredColumns ==
  Ingested =>
    \A n \in 1..Len(DataOf(selected.uploader)) :
      /\ Range(MapKeys(DataOf(selected.uploader)[n]))
           = Range(expectedColumns(selected.uploader))
      /\ Len(DataOf(selected.uploader)[n]) = Len(expectedColumns(selected.uploader))

\* An xlsx file with a third column, filled in its row, was ingested.
C24_Witness ==
  /\ Ingested
  /\ selected.file.content.kind = "workbook"
  /\ selected.file.table.header = <<FIRM, LOAN_AMOUNT, NOTE>>
  /\ selected.file.table.rows = << <<<<"A">>, <<"5">>, <<"x">>>> >>
  /\ MapHas(RawRowsOf(selected.file)[1], NOTE)
  /\ Len(lendingsData) = 1

\* The data rows of a file as they lie in it: every row after the first.
FileDataRows(file) == Tail(LinesOf(file.table))

\* C25: on success validation returns one record per data row, in input row
\* order: the i-th validated record is the record built from the i-th data
\* row; and when rows are invalid (several of them included) the error
\* reported is that of the first invalid row.
C25_InputOrderKept ==
  /\ Ingested =>
       /\ Len(DataOf(selected.uploader)) = Len(RawRowsOf(selected.file))
       /\ Len(DataOf(selected.uploader)) = Len(FileDataRows(selected.file))
       /\ \A i \in 1..Len(DataOf(selected.uploader)) :
            DataOf(selected.uploader)[i]
              = ValidateRow(RawRowsOf(selected.file)[i], i - 1,
                            expectedColumns(selected.uploader),
                            selected.file.name, NewMap).record
  /\ RowErrorShown =>
       \E k \in {FirstInvalidRow(selected.uploader, selected.file)} :
         toast.description
           = ValidateRow(RawRowsOf(selected.file)[k], k - 1,
                         expectedColumns(selected.uploader),
                         selected.file.name, NewMap).error

\* Two rows with different amounts were ingested in their order.
C25_Witness ==
  /\ Ingested
  /\ selected.file.table.rows
       = << <<<<"A">>, <<"5">>>>, <<<<"A">>, <<"1", ",", "5">>>> >>
  /\ selected.file.content.kind = "workbook"
  /\ MapGet(lendingsData[1], LOAN_AMOUNT) = V(5)
  /\ MapGet(lendingsData[2], LOAN_AMOUNT) = V(15)

\* Both rows of a file are invalid: the error shown is that of the first.
FirstErrorOfTwoShown ==
  /\ RowErrorShown
  /\ selected.file.table.rows
       = << <<<<"A">>, <<"R", "5">>>>, <<<<"A">>, <<>>>> >>
  /\ RowInvalid(selected.uploader, selected.file, 2)
  /\ toast.description.line = 2
  /\ toast.description.value = Str(<<"R", "5">>)

\* --------------------------------------------------- claims: file formats
NameCsv == <<"a", ".", "C", "S", "V">>

NameTsv == <<"a", ".", "t", "s", "v">>

NameXlsx == <<"a", ".", "x", "l", "s", "x">>

\* What an uploader does with a table that arrives under a file name: the
\* records delivered, or the refusal.
OutcomeOf(name, table, uploader) ==
  Bind(handleFileSelect(FileOf(name, table), expectedColumns(uploader)),
       LAMBDA done : IF done.delivered THEN [delivered |-> TRUE, data |-> done.data]
                     ELSE [delivered |-> FALSE])

\* C26 as stated: the spreadsheet path and the delimited-text path are
\* equivalent: the table of cells selected, whose header names may carry
\* surrounding whitespace, passes or fails validation alike and yields the
\* same validated records whether it arrives as csv, as tsv or as the first
\* worksheet of an xlsx file; and when a file is ingested each record holds
\* the identifier read from the cell of its row.
C26_FormatsEquivalent ==
  (Picked /\ FileExt(selected.file.name) \in {CSV, TSV, XLSX})
    => /\ OutcomeOf(NameCsv, selected.file.table, selected.uploader)
            = OutcomeOf(NameXlsx, selected.file.table, selected.uploader)
       /\ OutcomeOf(NameTsv, selected.file.table, selected.uploader)
            = OutcomeOf(NameXlsx, selected.file.table, selected.uploader)
       /\ Ingested =>
            \A n \in 1..Len(DataOf(selected.uploader)) :
              MapGet(DataOf(selected.uploader)[n], FIRM)
                = Str(Trim(FileDataRows(selected.file)[n][1]))

\* Side fact: csv and tsv agree on every table none of whose cells holds a
\* comma.
NoComma(table) ==
  \A r \in 1..Len(LinesOf(table)) : \A c \in 1..Len(LinesOf(table)[r]) :
    ~Includes(LinesOf(table)[r][c], <<",">>)

DelimitedFormatsAgree ==
  (Picked /\ NoComma(selected.file.table))
    => OutcomeOf(NameCsv, selected.file.table, selected.uploader)
         = OutcomeOf(NameTsv, selected.file.table, selected.uploader)

\* ------------------------------------------- the page with reads in flight
\* At most this many file reads are in flight at a time.
MaxReads == 2

\* The files at hand: two lendings files and one settlements file, all of a
\* supported format and valid.
RaceSelections ==
  {[uploader |-> "lendings",
    file |-> FileOf(<<"a", ".", "c", "s", "v">>,
                    [header |-> <<FIRM, LOAN_AMOUNT>>,
                     rows |-> << <<<<"A">>, <<"5">>>> >>])],
   [uploader |-> "lendings",
    file |-> FileOf(<<"b", ".", "t", "s", "v">>,
                    [header |-> <<FIRM, LOAN_AMOUNT>>,
                     rows |-> << <<<<"A">>, <<"5">>>>, <<<<"B">>, <<"1">>>> >>])],
   [uploader |-> "settlements",
    file |-> FileOf(<<"a", ".", "c", "s", "v">>,
                    [header |-> <<FIRM, PAYMENT_AMOUNT>>,
                     rows |-> << <<<<"A">>, <<"5">>>> >>])]}

\* handleFileSelect up to its await: a file of a supported format is handed
\* to an uploader and the read of its content (file.text() or
\* file.arrayBuffer()) is started.
BeginSelect ==
  \E selection \in RaceSelections :
    /\ FileExt(selection.file.name) \in {CSV, TSV, XLSX}
    /\ Len(reads) < MaxReads
    /\ reads' = Append(reads, selection)
    /\ selected' = selection
    /\ UNCHANGED <<lendingsData, settlementsData, fileName, reconciliationResults,
                   isProcessing, toast, attempt, invoked, aggVars, normVars>>

\* One of the reads in flight completes (the promises of different files
\* resolve in any order) and its handleFileSelect runs to its end.
CompleteRead ==
  \E i \in 1..Len(reads) :
    /\ reads' = SubSeq(reads, 1, i - 1) \o SubSeq(reads, i + 1, Len(reads))
    /\ UNCHANGED selected
    /\ ResumeFileSelect(reads[i].uploader, reads[i].file)

NextRace == BeginSelect \/ CompleteRead

SpecRace == InitIngest /\ [][NextRace]_vars

\* C27 as stated: when files are selected one after the other on the same
\* uploader, then once every read has completed the dataset and the file
\* name loaded on the uploader selected last are those of the file selected
\* last, whatever order the reads completed in.
C27_LastSelectedWins ==
  (Picked /\ reads = <<>>)
    => /\ fileName[selected.uploader] = selected.file.name
       /\ DataOf(selected.uploader)
            = handleFileSelect(selected.file, expectedColumns(selected.uploader)).data

\* Side fact: once every read has completed, what an uploader holds is the
\* whole of one file that was selected on it: name and dataset belong
\* together.
LoadedIsOneSelection ==
  reads = <<>> =>
    \A uploader \in Uploaders :
      \/ DataOf(uploader) = <<>> /\ fileName[uploader] = <<>>
      \/ \E selection \in RaceSelections :
           /\ selection.uploader = uploader
           /\ fileName[uploader] = selection.file.name
           /\ DataOf(uploader)
                = handleFileSelect(selection.file, expectedColumns(uploader)).data

\* ------------------------------------------------ claims: page handlers
\* The page with handleReconciliation invoked in any state (the handler as
\* a function, whether or not the button is enabled), over the csv files of
\* PageFiles handed to either uploader.
HandlerFiles == {file \in PageFiles : file.name = <<"a", ".", "c", "s", "v">>}

HandlerUpload ==
  \E uploader \in Uploaders, file \in HandlerFiles : SelectFile(uploader, file)

NextHandler == HandlerUpload \/ handleReconciliation

SpecHandler == InitIngest /\ [][NextHandler]_vars

RunToasts == {"Missing files", "Reconciliation complete", "Reconciliation failed"}

BothLoaded == lendingsData # <<>> /\ settlementsData # <<>>

\* The step is a successful upload on the uploader (a step of Run
\* Reconciliation calls reconcileLoans; an upload step does not).
UploadedOn(uploader) ==
  /\ toast'.title \notin RunToasts
  /\ invoked' = FALSE
  /\ selected'.uploader = uploader
  /\ attempt'[uploader] = "ok"

\* The step is Run Reconciliation storing the results of the datasets held.
RunStored ==
  /\ invoked'
  /\ toast'.title = "Reconciliation complete"
  /\ lendingsData' = lendingsData
  /\ settlementsData' = settlementsData
  /\ reconciliationResults'
       = reconcileLoans(RecordsOf(lendingsData, LOAN_AMOUNT),
                        RecordsOf(settlementsData, PAYMENT_AMOUNT))

\* C28: a successful upload replaces only its own dataset: a lendings
\* upload leaves the settlements dataset and the stored results as they
\* were, a settlements upload leaves the lendings dataset and the stored
\* results as they were, and the stored results change only in a step of
\* Run Reconciliation.
C28_UploadFrame ==
  [][/\ UploadedOn("lendings")
          => /\ settlementsData' = settlementsData
             /\ reconciliationResults' = reconciliationResults
             /\ lendingsData'
                  = handleFileSelect(selected'.file, expectedColumns("lendings")).data
     /\ UploadedOn("settlements")
          => /\ lendingsData' = lendingsData
             /\ reconciliationResults' = reconciliationResults
             /\ settlementsData'
                  = handleFileSelect(selected'.file, expectedColumns("settlements")).data
     /\ reconciliationResults' # reconciliationResults => RunStored]_vars

\* After a run, another lendings file was uploaded: the page still holds
\* the settlements and the results of the run, which the new lendings would
\* not give.
C28_Witness ==
  /\ Picked
  /\ selected.uploader = "lendings"
  /\ attempt["lendings"] = "ok"
  /\ ~invoked
  /\ settlementsData # <<>>
  /\ reconciliationResults # <<>>
  /\ reconciliationResults
       # reconcileLoans(RecordsOf(lendingsData, LOAN_AMOUNT),
                        RecordsOf(settlementsData, PAYMENT_AMOUNT))

\* C29: Run Reconciliation calls reconcileLoans and replaces the stored
\* results only when both datasets are non-empty (it then stores what
\* reconcileLoans returns for them); when either is empty it leaves the
\* stored results as they were; and in every case isProcessing is false when
\* the handler has returned.
C29_RunOnlyWhenBothLoaded ==
  [][toast'.title \in RunToasts
       => /\ isProcessing' = FALSE
          /\ invoked' <=> BothLoaded
          /\ ~BothLoaded
               => /\ reconciliationResults' = reconciliationResults
                  /\ toast'.title = "Missing files"
          /\ BothLoaded
               => reconciliationResults'
                    = reconcileLoans(RecordsOf(lendingsData, LOAN_AMOUNT),
                                     RecordsOf(settlementsData, PAYMENT_AMOUNT))]_vars

\* The handler has returned on a page that holds lendings and no
\* settlements.
C29_Witness ==
  /\ toast.title = "Missing files"
  /\ lendingsData # <<>>
  /\ settlementsData = <<>>
  /\ reconciliationResults = <<>>
  /\ ~invoked
  /\ ~isProcessing

\* ---------------------------------------------------- claims: result order
\* The position of the first record of the firm in the records.
FirstIndex(records, firm) ==
  CHOOSE i \in 1..Len(records) :
    records[i].firm = firm /\ \A j \in 1..(i - 1) : records[j].firm # firm

\* The firm f comes before the firm g in the committed order: firms of
\* lendings first, by first occurrence in lendings, then the firms that
\* occur in settlements only, by first occurrence in settlements.
ComesBefore(f, g) ==
  IF f \in FirmsOf(lendings)
  THEN g \in FirmsOf(lendings) => FirstIndex(lendings, f) < FirstIndex(lendings, g)
  ELSE /\ g \notin FirmsOf(lendings)
       /\ FirstIndex(settlements, f) < FirstIndex(settlements, g)

\* C30: the result order of reconcileLoans is committed: the firms that
\* occur in lendings come first, in order of their first occurrence in
\* lendings, followed by the firms that occur only in settlements, in order
\* of their first occurrence in settlements; and a repeated call returns the
\* same sequence.
C30_ResultOrder ==
  Returned =>
    /\ \A p, q \in 1..Len(results) :
         p < q => ComesBefore(results[p].firm, results[q].firm)
    /\ results = reconcileLoans(lendings, settlements)

\* B was lent to; A occurs first in settlements, but only there.
C30_Witness ==
  /\ Returned
  /\ Field(lendings, "firm") = <<"B">>
  /\ Field(settlements, "firm") = <<"A", "B">>
  /\ Field(results, "firm") = <<"B", "A">>

====
